---- MODULE Spec2Model ----
(***************************************************************************)
(* Rate-limiting TCP gateway: a TokenBucket shared by all session threads  *)
(* (ratelimiter/tokenbucket.py) and the per-connection forwarding loop     *)
(* handle_client_request (main.py).                                        *)
(*                                                                         *)
(* Bytes and text are modelled as sequences of tokens; the token NL is the *)
(* line feed.  A Python str is the record [str |-> tokens], a bytes value  *)
(* is the bare token sequence, and str.encode() maps the first to the      *)
(* second.                                                                 *)
(*                                                                         *)
(* Socket failures are modelled for the upstream side (connect, sendall,   *)
(* recv raising); client-side recv/sendall are modelled as succeeding.     *)
(***************************************************************************)
EXTENDS Integers, Sequences, FiniteSets, TLC

(* ------------------------------ bounds --------------------------------- *)
MaxBucketSize == 2        \* largest bucketsize passed to TokenBucket()
MaxUpstreams == 2         \* longest upstream list in the configuration
MaxMsgs == 2              \* non-empty chunks a client sends per session
MaxRefills == 1           \* refill resets observed in one run

\* Session threads started by the accept loop.
Sessions == {1, 2}
RefillThread == 0         \* identity of the refill thread as lock holder
Unlocked == -1            \* lock.locked() is False

\* bucketsize values handed to the constructor; it validates nothing, so a
\* negative integer is accepted as well.
BucketSizes == (0 - 1)..MaxBucketSize

NL == "\n"

\* Chunks the client of session s may send (recv(2046) results); <<>> is the
\* zero-byte read.  Each client has its own payload, so that bytes of one
\* session showing up in another would be seen.
ClientChunks(s) == IF s = 1 THEN {<<"PING">>} ELSE {<<"DATA">>}
Chunks == UNION {ClientChunks(s) : s \in Sessions}
\* Names (host, port) the configuration may list, in configured order.
UpstreamNames == <<"U1", "U2", "U3", "U4">>
\* Chunks upstream p may answer with.
Replies(p) == {<<"PONG", p>>}

(* --------------------------- settings.py ------------------------------- *)
HTTP_429 ==
    [str |-> << NL,
                "http_response = \"\"\"", "HTTP/1.1 429 Too Many Requests", NL,
                "Content-Type: text/plain", NL,
                NL,
                "Too many requests. Please try again later.", NL,
                "\"\"\"", NL >>]

\* str.encode(): the text is ASCII, so the bytes are the same tokens.
Encode(text) == text.str

(* ------------------------------ state ---------------------------------- *)
VARIABLES
    bucketsize,            \* TokenBucket.bucketsize
    tokensleft,            \* TokenBucket.tokensleft
    lock,                  \* TokenBucket.lock: holder, or Unlocked
    refill_pc,             \* position of the refill thread
    refills,               \* number of completed refill resets (history)
    upstreams_config,      \* ordered upstream list, fixed for the process
    pc,                    \* position of each session thread
    client_conn,           \* state of each session's client socket
    request_data,          \* chunk last received from the client
    received,              \* non-empty chunks received so far (history)
    tokens_read,           \* value loaded by `self.tokensleft -= 1`
    turns,                 \* results of the session's consume() calls (history)
    upstream_connections,  \* local list of establish_upstream_connections
    upstream_socket,       \* socket whose connect() raised, if any
    upstream_sockets,      \* handler's list of upstream sockets
    idx,                   \* position of the for loop over upstream_sockets
    upstream_response,     \* reply chunk last received from an upstream
    client_sent            \* chunks sent to the client since the last recv

bucketVars == <<bucketsize, tokensleft, lock, refill_pc, refills>>
sessVars == <<pc, client_conn, request_data, received, tokens_read, turns,
              upstream_connections, upstream_socket, upstream_sockets, idx,
              upstream_response, client_sent>>
vars == <<bucketsize, tokensleft, lock, refill_pc, refills, upstreams_config,
          pc, client_conn, request_data, received, tokens_read, turns,
          upstream_connections, upstream_socket, upstream_sockets, idx,
          upstream_response, client_sent>>

NoSocket == [peer |-> "none", state |-> "none", sent |-> <<>>]

\* socket.socket() followed by a successful connect() to upstream number p.
NewSocket(p) == [peer |-> p, state |-> "connected", sent |-> <<>>]

\* socket.socket() whose connect() raised: created, never connected.
FailedSocket(p) == [peer |-> p, state |-> "created", sent |-> <<>>]

IsOpen(sock) == sock.state \in {"created", "connected"}

(* ------------------------------- Init ---------------------------------- *)
\* TokenBucket.__init__ and the start of the accept loop: the bucket is
\* full, the lock free, the refill thread asleep, no session accepted yet.
Init ==
    /\ bucketsize \in BucketSizes
    /\ tokensleft = bucketsize
    /\ lock = Unlocked
    /\ refill_pc = "sleep"
    /\ refills = 0
    /\ upstreams_config \in {SubSeq(UpstreamNames, 1, n) : n \in 0..MaxUpstreams}
    /\ pc = [s \in Sessions |-> "idle"]
    /\ client_conn = [s \in Sessions |-> "none"]
    /\ request_data = [s \in Sessions |-> <<>>]
    /\ received = [s \in Sessions |-> 0]
    /\ tokens_read = [s \in Sessions |-> 0]
    /\ turns = [s \in Sessions |-> <<>>]
    /\ upstream_connections = [s \in Sessions |-> <<>>]
    /\ upstream_socket = [s \in Sessions |-> NoSocket]
    /\ upstream_sockets = [s \in Sessions |-> <<>>]
    /\ idx = [s \in Sessions |-> 0]
    /\ upstream_response = [s \in Sessions |-> <<>>]
    /\ client_sent = [s \in Sessions |-> <<>>]

(* --------------------------- TokenBucket ------------------------------- *)
\* Variant of RefillAcquire that does not wait for the lock.
RefillAcquire_NoLock ==
    /\ refill_pc = "sleep"
    /\ refills < MaxRefills
    /\ lock' = RefillThread
    /\ refill_pc' = "locked"
    /\ UNCHANGED <<bucketsize, tokensleft, refills, upstreams_config>>
    /\ UNCHANGED sessVars

\* _refill: time.sleep(refill_time) returns and `with self.lock` is entered.
RefillAcquire ==
    /\ refill_pc = "sleep"
    /\ refills < MaxRefills
    /\ lock = Unlocked
    /\ lock' = RefillThread
    /\ refill_pc' = "locked"
    /\ UNCHANGED <<bucketsize, tokensleft, refills, upstreams_config>>
    /\ UNCHANGED sessVars

\* Variant of RefillReset that adds bucketsize tokens instead of resetting.
RefillReset_Increment ==
    /\ refill_pc = "locked"
    /\ tokensleft' = tokensleft + bucketsize
    /\ lock' = Unlocked
    /\ refill_pc' = "sleep"
    /\ refills' = refills + 1
    /\ UNCHANGED <<bucketsize, upstreams_config>>
    /\ UNCHANGED sessVars

\* _refill: self.tokensleft = self.bucketsize, then the lock is released and
\* the thread sleeps again.
RefillReset ==
    /\ refill_pc = "locked"
    /\ tokensleft' = bucketsize
    /\ lock' = Unlocked
    /\ refill_pc' = "sleep"
    /\ refills' = refills + 1
    /\ UNCHANGED <<bucketsize, upstreams_config>>
    /\ UNCHANGED sessVars

\* Variant of ConsumeAcquire that does not wait for the lock.
ConsumeAcquire_NoLock(s) ==
    /\ pc[s] = "consume"
    /\ lock' = s
    /\ pc' = [pc EXCEPT ![s] = "check"]
    /\ UNCHANGED <<bucketsize, tokensleft, refill_pc, refills, upstreams_config>>
    /\ UNCHANGED <<client_conn, request_data, received, tokens_read, turns,
                   upstream_connections, upstream_socket, upstream_sockets,
                   idx, upstream_response, client_sent>>

\* consume: `with self.lock` is entered.
ConsumeAcquire(s) ==
    /\ pc[s] = "consume"
    /\ lock = Unlocked
    /\ lock' = s
    /\ pc' = [pc EXCEPT ![s] = "check"]
    /\ UNCHANGED <<bucketsize, tokensleft, refill_pc, refills, upstreams_config>>
    /\ UNCHANGED <<client_conn, request_data, received, tokens_read, turns,
                   upstream_connections, upstream_socket, upstream_sockets,
                   idx, upstream_response, client_sent>>

\* Variant of BucketEmpty that lets the last token be taken twice.
BucketEmpty_OffByOne(t) == t < 0

\* The test of consume: tokensleft == 0.
BucketEmpty(t) == t = 0

\* Variant of ConsumeCheck whose `return False` leaves the lock acquired.
ConsumeCheck_NoRelease(s) ==
    /\ pc[s] = "check"
    /\ IF BucketEmpty(tokensleft)
         THEN /\ turns' = [turns EXCEPT ![s] = Append(@, FALSE)]
              /\ pc' = [pc EXCEPT ![s] = "reject"]
         ELSE /\ pc' = [pc EXCEPT ![s] = "load"]
              /\ UNCHANGED turns
    /\ UNCHANGED <<bucketsize, tokensleft, lock, refill_pc, refills,
                   upstreams_config>>
    /\ UNCHANGED <<client_conn, request_data, received, tokens_read,
                   upstream_connections, upstream_socket, upstream_sockets,
                   idx, upstream_response, client_sent>>

\* consume: `if self.tokensleft == 0: return False` (the lock is released on
\* return); otherwise the decrement follows.
ConsumeCheck(s) ==
    /\ pc[s] = "check"
    /\ IF BucketEmpty(tokensleft)
         THEN /\ turns' = [turns EXCEPT ![s] = Append(@, FALSE)]
              /\ lock' = Unlocked
              /\ pc' = [pc EXCEPT ![s] = "reject"]
         ELSE /\ pc' = [pc EXCEPT ![s] = "load"]
              /\ UNCHANGED <<turns, lock>>
    /\ UNCHANGED <<bucketsize, tokensleft, refill_pc, refills, upstreams_config>>
    /\ UNCHANGED <<client_conn, request_data, received, tokens_read,
                   upstream_connections, upstream_socket, upstream_sockets,
                   idx, upstream_response, client_sent>>

\* consume: `self.tokensleft -= 1`, the read of the attribute.
ConsumeLoad(s) ==
    /\ pc[s] = "load"
    /\ tokens_read' = [tokens_read EXCEPT ![s] = tokensleft]
    /\ pc' = [pc EXCEPT ![s] = "store"]
    /\ UNCHANGED bucketVars
    /\ UNCHANGED upstreams_config
    /\ UNCHANGED <<client_conn, request_data, received, turns,
                   upstream_connections, upstream_socket, upstream_sockets,
                   idx, upstream_response, client_sent>>

\* Variant of ConsumeStore whose `return True` leaves the lock acquired, as
\* if the caller forwarded the message inside the `with` block.
ConsumeStore_KeepLock(s) ==
    /\ pc[s] = "store"
    /\ tokensleft' = tokens_read[s] - 1
    /\ turns' = [turns EXCEPT ![s] = Append(@, TRUE)]
    /\ pc' = [pc EXCEPT ![s] = "establish"]
    /\ UNCHANGED <<bucketsize, lock, refill_pc, refills, upstreams_config>>
    /\ UNCHANGED <<client_conn, request_data, received, tokens_read,
                   upstream_connections, upstream_socket, upstream_sockets,
                   idx, upstream_response, client_sent>>

\* Variant of ConsumeStore that takes two tokens for one call.
ConsumeStore_DoubleDecrement(s) ==
    /\ pc[s] = "store"
    /\ tokensleft' = tokens_read[s] - 2
    /\ turns' = [turns EXCEPT ![s] = Append(@, TRUE)]
    /\ lock' = Unlocked
    /\ pc' = [pc EXCEPT ![s] = "establish"]
    /\ UNCHANGED <<bucketsize, refill_pc, refills, upstreams_config>>
    /\ UNCHANGED <<client_conn, request_data, received, tokens_read,
                   upstream_connections, upstream_socket, upstream_sockets,
                   idx, upstream_response, client_sent>>

\* consume: `self.tokensleft -= 1`, the write back; `return True` releases
\* the lock.
ConsumeStore(s) ==
    /\ pc[s] = "store"
    /\ tokensleft' = tokens_read[s] - 1
    /\ turns' = [turns EXCEPT ![s] = Append(@, TRUE)]
    /\ lock' = Unlocked
    /\ pc' = [pc EXCEPT ![s] = "establish"]
    /\ UNCHANGED <<bucketsize, refill_pc, refills, upstreams_config>>
    /\ UNCHANGED <<client_conn, request_data, received, tokens_read,
                   upstream_connections, upstream_socket, upstream_sockets,
                   idx, upstream_response, client_sent>>

(* ------------------------------ main.py -------------------------------- *)
\* start_server: accept() returns a connection and a session thread starts.
Accept(s) ==
    /\ pc[s] = "idle"
    /\ pc' = [pc EXCEPT ![s] = "recv"]
    /\ client_conn' = [client_conn EXCEPT ![s] = "open"]
    /\ UNCHANGED bucketVars
    /\ UNCHANGED upstreams_config
    /\ UNCHANGED <<request_data, received, tokens_read, turns,
                   upstream_connections, upstream_socket, upstream_sockets,
                   idx, upstream_response, client_sent>>

\* Variant of ClientRecv without the `if not request_data: break` test: the
\* empty read is handled like any other chunk.
ClientRecv_NoEmptyCheck(s) ==
    /\ pc[s] = "recv"
    /\ \E data \in ClientChunks(s) \cup {<<>>} :
         /\ request_data' = [request_data EXCEPT ![s] = data]
         /\ received[s] < MaxMsgs
         /\ received' = [received EXCEPT ![s] = @ + 1]
         /\ client_sent' = [client_sent EXCEPT ![s] = <<>>]
         /\ pc' = [pc EXCEPT ![s] = "consume"]
    /\ UNCHANGED bucketVars
    /\ UNCHANGED upstreams_config
    /\ UNCHANGED <<client_conn, tokens_read, turns, upstream_connections,
                   upstream_socket, upstream_sockets, idx, upstream_response>>

\* handle_client_request: request_data = client_conn.recv(2046); an empty
\* result breaks out of the loop and the thread ends.
ClientRecv(s) ==
    /\ pc[s] = "recv"
    /\ \E data \in ClientChunks(s) \cup {<<>>} :
         /\ request_data' = [request_data EXCEPT ![s] = data]
         /\ IF data = <<>>
              THEN /\ pc' = [pc EXCEPT ![s] = "done"]
                   /\ UNCHANGED <<received, client_sent>>
              ELSE /\ received[s] < MaxMsgs
                   /\ received' = [received EXCEPT ![s] = @ + 1]
                   /\ client_sent' = [client_sent EXCEPT ![s] = <<>>]
                   /\ pc' = [pc EXCEPT ![s] = "consume"]
    /\ UNCHANGED bucketVars
    /\ UNCHANGED upstreams_config
    /\ UNCHANGED <<client_conn, tokens_read, turns, upstream_connections,
                   upstream_socket, upstream_sockets, idx, upstream_response>>

\* Variant of SendRejection without the `continue`: it falls through to the
\* forwarding of the chunk.
SendRejection_FallThrough(s) ==
    /\ pc[s] = "reject"
    /\ client_sent' = [client_sent EXCEPT ![s] = Append(@, Encode(HTTP_429))]
    /\ pc' = [pc EXCEPT ![s] = "establish"]
    /\ UNCHANGED bucketVars
    /\ UNCHANGED upstreams_config
    /\ UNCHANGED <<client_conn, request_data, received, tokens_read, turns,
                   upstream_connections, upstream_socket, upstream_sockets,
                   idx, upstream_response>>

\* handle_client_request: consume() returned False;
\* client_conn.sendall(HTTP_429.encode()); continue.
SendRejection(s) ==
    /\ pc[s] = "reject"
    /\ client_sent' = [client_sent EXCEPT ![s] = Append(@, Encode(HTTP_429))]
    /\ pc' = [pc EXCEPT ![s] = "recv"]
    /\ UNCHANGED bucketVars
    /\ UNCHANGED upstreams_config
    /\ UNCHANGED <<client_conn, request_data, received, tokens_read, turns,
                   upstream_connections, upstream_socket, upstream_sockets,
                   idx, upstream_response>>

\* establish_upstream_connections: one turn of the loop, the connect succeeds
\* and the socket is appended.
Connect(s) ==
    /\ pc[s] = "establish"
    /\ Len(upstream_connections[s]) < Len(upstreams_config)
    /\ upstream_connections' = [upstream_connections EXCEPT ![s] =
           Append(@, NewSocket(upstreams_config[Len(@) + 1]))]
    /\ UNCHANGED bucketVars
    /\ UNCHANGED upstreams_config
    /\ UNCHANGED <<pc, client_conn, request_data, received, tokens_read, turns,
                   upstream_socket, upstream_sockets, idx, upstream_response,
                   client_sent>>

\* establish_upstream_connections: connect() raises; nothing catches it, so
\* the session thread ends with the sockets made so far still open.
ConnectRaises(s) ==
    /\ pc[s] = "establish"
    /\ Len(upstream_connections[s]) < Len(upstreams_config)
    /\ upstream_socket' = [upstream_socket EXCEPT ![s] =
           FailedSocket(upstreams_config[Len(upstream_connections[s]) + 1])]
    /\ pc' = [pc EXCEPT ![s] = "crashed"]
    /\ UNCHANGED bucketVars
    /\ UNCHANGED upstreams_config
    /\ UNCHANGED <<client_conn, request_data, received, tokens_read, turns,
                   upstream_connections, upstream_sockets, idx,
                   upstream_response, client_sent>>

\* Variant of EstablishReturn whose loop body is entered once even when the
\* list is empty (a do-while instead of a for).
EstablishReturn_BodyFirst(s) ==
    /\ pc[s] = "establish"
    /\ Len(upstream_connections[s]) = Len(upstreams_config)
    /\ upstream_sockets' = [upstream_sockets EXCEPT ![s] = upstream_connections[s]]
    /\ upstream_connections' = [upstream_connections EXCEPT ![s] = <<>>]
    /\ pc' = [pc EXCEPT ![s] = "send"]
    /\ idx' = [idx EXCEPT ![s] = 1]
    /\ UNCHANGED bucketVars
    /\ UNCHANGED upstreams_config
    /\ UNCHANGED <<client_conn, request_data, received, tokens_read, turns,
                   upstream_socket, upstream_response, client_sent>>

\* establish_upstream_connections returns its list; the handler's for loop
\* starts (and ends at once when the list is empty).
EstablishReturn(s) ==
    /\ pc[s] = "establish"
    /\ Len(upstream_connections[s]) = Len(upstreams_config)
    /\ upstream_sockets' = [upstream_sockets EXCEPT ![s] = upstream_connections[s]]
    /\ upstream_connections' = [upstream_connections EXCEPT ![s] = <<>>]
    /\ IF upstream_connections[s] = <<>>
         THEN /\ pc' = [pc EXCEPT ![s] = "recv"]
              /\ idx' = [idx EXCEPT ![s] = 0]
         ELSE /\ pc' = [pc EXCEPT ![s] = "send"]
              /\ idx' = [idx EXCEPT ![s] = 1]
    /\ UNCHANGED bucketVars
    /\ UNCHANGED upstreams_config
    /\ UNCHANGED <<client_conn, request_data, received, tokens_read, turns,
                   upstream_socket, upstream_response, client_sent>>

\* Variant of UpstreamSend that writes the chunk to every upstream socket of
\* the list at once (parallel fan-out).
UpstreamSend_Broadcast(s) ==
    /\ pc[s] = "send"
    /\ upstream_sockets' = [upstream_sockets EXCEPT ![s] =
           [j \in DOMAIN @ |-> [@[j] EXCEPT !.sent = Append(@, request_data[s])]]]
    /\ pc' = [pc EXCEPT ![s] = "await"]
    /\ UNCHANGED bucketVars
    /\ UNCHANGED upstreams_config
    /\ UNCHANGED <<client_conn, request_data, received, tokens_read, turns,
                   upstream_connections, upstream_socket, idx,
                   upstream_response, client_sent>>

\* for loop body: upstream_socket.sendall(request_data).
UpstreamSend(s) ==
    /\ pc[s] = "send"
    /\ upstream_sockets' = [upstream_sockets EXCEPT ![s][idx[s]].sent =
                               Append(@, request_data[s])]
    /\ pc' = [pc EXCEPT ![s] = "await"]
    /\ UNCHANGED bucketVars
    /\ UNCHANGED upstreams_config
    /\ UNCHANGED <<client_conn, request_data, received, tokens_read, turns,
                   upstream_connections, upstream_socket, idx,
                   upstream_response, client_sent>>

\* for loop body: sendall raises and the session thread ends.
UpstreamSendRaises(s) ==
    /\ pc[s] = "send"
    /\ pc' = [pc EXCEPT ![s] = "crashed"]
    /\ UNCHANGED bucketVars
    /\ UNCHANGED upstreams_config
    /\ UNCHANGED <<client_conn, request_data, received, tokens_read, turns,
                   upstream_connections, upstream_socket, upstream_sockets,
                   idx, upstream_response, client_sent>>

\* for loop body: upstream_response = upstream_socket.recv(2046).
UpstreamRecv(s) ==
    /\ pc[s] = "await"
    /\ \E reply \in Replies(upstream_sockets[s][idx[s]].peer) :
         upstream_response' = [upstream_response EXCEPT ![s] = reply]
    /\ pc' = [pc EXCEPT ![s] = "relay"]
    /\ UNCHANGED bucketVars
    /\ UNCHANGED upstreams_config
    /\ UNCHANGED <<client_conn, request_data, received, tokens_read, turns,
                   upstream_connections, upstream_socket, upstream_sockets,
                   idx, client_sent>>

\* Variant of UpstreamRecvRaises that gives the token back before the
\* session ends.
UpstreamRecvRaises_Refund(s) ==
    /\ pc[s] = "await"
    /\ pc' = [pc EXCEPT ![s] = "crashed"]
    /\ tokensleft' = tokensleft + 1
    /\ UNCHANGED <<bucketsize, lock, refill_pc, refills, upstreams_config>>
    /\ UNCHANGED <<client_conn, request_data, received, tokens_read, turns,
                   upstream_connections, upstream_socket, upstream_sockets,
                   idx, upstream_response, client_sent>>

\* Variant of UpstreamRecvRaises in which the error is swallowed and the loop
\* goes on with the next upstream socket.
UpstreamRecvRaises_Continue(s) ==
    /\ pc[s] = "await"
    /\ IF idx[s] < Len(upstream_sockets[s])
         THEN /\ idx' = [idx EXCEPT ![s] = @ + 1]
              /\ pc' = [pc EXCEPT ![s] = "send"]
         ELSE /\ idx' = [idx EXCEPT ![s] = 0]
              /\ pc' = [pc EXCEPT ![s] = "recv"]
    /\ UNCHANGED bucketVars
    /\ UNCHANGED upstreams_config
    /\ UNCHANGED <<client_conn, request_data, received, tokens_read, turns,
                   upstream_connections, upstream_socket, upstream_sockets,
                   upstream_response, client_sent>>

\* for loop body: recv raises and the session thread ends.
UpstreamRecvRaises(s) ==
    /\ pc[s] = "await"
    /\ pc' = [pc EXCEPT ![s] = "crashed"]
    /\ UNCHANGED bucketVars
    /\ UNCHANGED upstreams_config
    /\ UNCHANGED <<client_conn, request_data, received, tokens_read, turns,
                   upstream_connections, upstream_socket, upstream_sockets,
                   idx, upstream_response, client_sent>>

\* Variant of RelayToClient that sends the request chunk back instead of the
\* upstream's reply.
RelayToClient_Echo(s) ==
    /\ pc[s] = "relay"
    /\ client_sent' = [client_sent EXCEPT ![s] = Append(@, request_data[s])]
    /\ pc' = [pc EXCEPT ![s] = "close"]
    /\ UNCHANGED bucketVars
    /\ UNCHANGED upstreams_config
    /\ UNCHANGED <<client_conn, request_data, received, tokens_read, turns,
                   upstream_connections, upstream_socket, upstream_sockets,
                   idx, upstream_response>>

\* for loop body: client_conn.sendall(upstream_response).
RelayToClient(s) ==
    /\ pc[s] = "relay"
    /\ client_sent' = [client_sent EXCEPT ![s] = Append(@, upstream_response[s])]
    /\ pc' = [pc EXCEPT ![s] = "close"]
    /\ UNCHANGED bucketVars
    /\ UNCHANGED upstreams_config
    /\ UNCHANGED <<client_conn, request_data, received, tokens_read, turns,
                   upstream_connections, upstream_socket, upstream_sockets,
                   idx, upstream_response>>

\* Variant of CloseUpstream that forgets upstream_socket.close().
CloseUpstream_Leak(s) ==
    /\ pc[s] = "close"
    /\ IF idx[s] < Len(upstream_sockets[s])
         THEN /\ idx' = [idx EXCEPT ![s] = @ + 1]
              /\ pc' = [pc EXCEPT ![s] = "send"]
         ELSE /\ idx' = [idx EXCEPT ![s] = 0]
              /\ pc' = [pc EXCEPT ![s] = "recv"]
    /\ UNCHANGED bucketVars
    /\ UNCHANGED upstreams_config
    /\ UNCHANGED <<client_conn, request_data, received, tokens_read, turns,
                   upstream_connections, upstream_socket, upstream_sockets,
                   upstream_response, client_sent>>

\* for loop body: upstream_socket.close(); then the next socket of the list,
\* or back to the top of the while loop.
CloseUpstream(s) ==
    /\ pc[s] = "close"
    /\ upstream_sockets' = [upstream_sockets EXCEPT ![s][idx[s]].state = "closed"]
    /\ IF idx[s] < Len(upstream_sockets[s])
         THEN /\ idx' = [idx EXCEPT ![s] = @ + 1]
              /\ pc' = [pc EXCEPT ![s] = "send"]
         ELSE /\ idx' = [idx EXCEPT ![s] = 0]
              /\ pc' = [pc EXCEPT ![s] = "recv"]
    /\ UNCHANGED bucketVars
    /\ UNCHANGED upstreams_config
    /\ UNCHANGED <<client_conn, request_data, received, tokens_read, turns,
                   upstream_connections, upstream_socket, upstream_response,
                   client_sent>>

(* ------------------------------- Next ---------------------------------- *)
Next ==
    \/ RefillAcquire
    \/ RefillReset
    \/ \E s \in Sessions : Accept(s)
    \/ \E s \in Sessions : ClientRecv(s)
    \/ \E s \in Sessions : ConsumeAcquire(s)
    \/ \E s \in Sessions : ConsumeCheck(s)
    \/ \E s \in Sessions : ConsumeLoad(s)
    \/ \E s \in Sessions : ConsumeStore(s)
    \/ \E s \in Sessions : SendRejection(s)
    \/ \E s \in Sessions : Connect(s)
    \/ \E s \in Sessions : ConnectRaises(s)
    \/ \E s \in Sessions : EstablishReturn(s)
    \/ \E s \in Sessions : UpstreamSend(s)
    \/ \E s \in Sessions : UpstreamSendRaises(s)
    \/ \E s \in Sessions : UpstreamRecv(s)
    \/ \E s \in Sessions : UpstreamRecvRaises(s)
    \/ \E s \in Sessions : RelayToClient(s)
    \/ \E s \in Sessions : CloseUpstream(s)

Spec == Init /\ [][Next]_vars

\* Scheduling of the threads.  The refill thread's sleep returns and a thread
\* waiting on the lock gets it when the lock is released again and again; a
\* thread inside `with self.lock` runs on.  Nothing is assumed about socket
\* I/O: a session may stay blocked in recv, connect or sendall for ever.
Fairness ==
    /\ SF_vars(RefillAcquire)
    /\ WF_vars(RefillReset)
    /\ \A s \in Sessions :
           /\ SF_vars(ConsumeAcquire(s))
           /\ WF_vars(ConsumeCheck(s) \/ ConsumeLoad(s) \/ ConsumeStore(s))

\* Start of the runs checked for progress: a bucket that holds tokens and a
\* configuration with one upstream.
LiveInit == Init /\ bucketsize >= 1 /\ Len(upstreams_config) = 1

LiveSpec == LiveInit /\ [][Next]_vars /\ Fairness

(* ============================ properties =============================== *)
\* Number of consume() calls of session s that returned b.
CountOf(s, b) == Cardinality({j \in DOMAIN turns[s] : turns[s][j] = b})

RECURSIVE SumOver(_, _)
SumOver(S, b) ==
    IF S = {} THEN 0
    ELSE LET s == CHOOSE x \in S : TRUE
         IN  CountOf(s, b) + SumOver(S \ {s}, b)

\* consume() calls, over all sessions, that returned True / False so far.
Granted == SumOver(Sessions, TRUE)
Denied == SumOver(Sessions, FALSE)

\* Session s is inside the `with self.lock` block of consume.
InConsume(s) == pc[s] \in {"check", "load", "store"}

LastTurn(s) == turns[s][Len(turns[s])]

\* C1: for a bucket constructed with bucketsize >= 0, every reachable state
\* under any interleaving of consume() calls and refill resets satisfies
\* 0 <= tokensleft <= bucketsize.
C1_TokensWithinBounds ==
    bucketsize >= 0 => (0 <= tokensleft /\ tokensleft <= bucketsize)

\* C1 witness: the bucket was drained, reset by a refill and drained to 0
\* again by consume() calls, and a consume() has been refused.
C1_Witness ==
    /\ bucketsize >= 1
    /\ refills >= 1
    /\ tokensleft = 0
    /\ Granted > bucketsize
    /\ Denied >= 1

\* C2: when N >= capacity consume() calls race on a freshly full bucket and
\* no refill occurs, exactly capacity of them return True and the other
\* N - capacity return False; no decrement is lost (tokensleft is capacity
\* minus the number of successes).
C2_ExactlyCapacitySucceed ==
    (bucketsize >= 0 /\ refills = 0) =>
        /\ tokensleft = bucketsize - Granted
        /\ (Granted + Denied >= bucketsize =>
               /\ Granted = bucketsize
               /\ Denied = (Granted + Denied) - bucketsize
               /\ tokensleft = 0)

\* C2 witness: capacity 1, no refill, each of the two session threads has
\* called consume() once on the full bucket: one got True, the other False.
C2_Witness ==
    /\ bucketsize = 1
    /\ refills = 0
    /\ \A s \in Sessions : Len(turns[s]) = 1
    /\ Granted = 1
    /\ Denied = 1

\* C3: with r refill resets so far, at most (r + 1) * capacity consume()
\* calls have returned True; the tokens still in the bucket count against
\* the same budget, so the bound holds for every execution segment.
C3_SuccessesBoundedByRefills ==
    bucketsize >= 0 => Granted + tokensleft <= (refills + 1) * bucketsize

\* C3 witness: one refill has happened and more than capacity calls have
\* succeeded, filling the budget of (r + 1) * capacity exactly.
C3_Witness ==
    /\ bucketsize >= 1
    /\ refills = 1
    /\ Granted = 2 * bucketsize

\* C4: consume() returns True and decrements tokensleft by exactly 1 if and
\* only if tokensleft > 0 at the locked check; otherwise it returns False and
\* leaves tokensleft unchanged, for any integer bucketsize.
C4_ConsumeIffPositive ==
    [][\A s \in Sessions :
         /\ (pc[s] = "check" /\ pc'[s] # "check") =>
               IF tokensleft > 0
                 THEN pc'[s] = "load" /\ turns'[s] = turns[s]
                 ELSE /\ turns'[s] = Append(turns[s], FALSE)
                      /\ tokensleft' = tokensleft
         /\ (pc[s] = "store" /\ pc'[s] # "store") =>
               /\ turns'[s] = Append(turns[s], TRUE)
               /\ tokensleft' = tokensleft - 1]_vars

\* C5: the refill step runs under the lock and sets tokensleft to bucketsize
\* whatever it was before; no consume() is between its check and its write
\* while the refill holds the lock, and a consume() writes back the value it
\* read, so a refill is never overwritten by a stale decrement.
C5_RefillIsFullAtomicReset ==
    /\ [](refill_pc = "locked" =>
             lock = RefillThread /\ \A s \in Sessions : ~InConsume(s))
    /\ [](\A s \in Sessions : pc[s] = "store" => tokens_read[s] = tokensleft)
    /\ [][(refill_pc = "locked" /\ refill_pc' = "sleep") =>
             tokensleft' = bucketsize]_vars

\* C5 witness: a refill has just restored a bucket that consume() calls had
\* fully drained, while a session is waiting to enter consume().
C5_Witness ==
    /\ bucketsize >= 2
    /\ refills = 1
    /\ tokensleft = bucketsize
    /\ Granted = bucketsize
    /\ \E s \in Sessions : pc[s] = "consume"

\* The sockets session s has made for upstreams and not dropped yet.
UpstreamSocketsOf(s) ==
    {upstream_connections[s][j] : j \in DOMAIN upstream_connections[s]}
      \cup {upstream_sockets[s][j] : j \in DOMAIN upstream_sockets[s]}
      \cup {upstream_socket[s]}

\* The last consume() of session s returned False and its iteration is over.
RejectedTurnOver(s) == pc[s] = "recv" /\ turns[s] # <<>> /\ ~LastTurn(s)

\* C6: when consume() returns False for a received chunk the handler sends
\* the rejection payload to the client, opens no upstream connection, sends
\* nothing upstream, and goes back to waiting on the still open client
\* connection.
C6_RejectionKeepsSession ==
    /\ [](\A s \in Sessions : pc[s] = "reject" =>
             turns[s] # <<>> /\ ~LastTurn(s) /\ client_conn[s] = "open")
    /\ [](\A s \in Sessions : RejectedTurnOver(s) =>
             /\ client_sent[s] = <<Encode(HTTP_429)>>
             /\ client_conn[s] = "open"
             /\ \A sock \in UpstreamSocketsOf(s) : ~IsOpen(sock))
    /\ [][\A s \in Sessions :
            ((pc[s] = "check" /\ pc'[s] = "reject")
               \/ (pc[s] = "reject" /\ pc'[s] # "reject")) =>
                /\ pc[s] = "reject" => pc'[s] = "recv"
                /\ pc[s] = "reject" =>
                       client_sent'[s] = Append(client_sent[s], Encode(HTTP_429))
                /\ upstream_connections'[s] = upstream_connections[s]
                /\ upstream_sockets'[s] = upstream_sockets[s]
                /\ upstream_socket'[s] = upstream_socket[s]
                /\ client_conn'[s] = "open"]_vars

\* C6 witness: a session was rejected, kept its connection, and its next
\* chunk (after a refill) was admitted and is being forwarded.
C6_Witness ==
    \E s \in Sessions :
        /\ turns[s] = <<FALSE, TRUE>>
        /\ pc[s] = "await"
        /\ client_conn[s] = "open"

RejectionPayload ==
    << "HTTP/1.1 429 Too Many Requests", NL,
       "Content-Type: text/plain", NL,
       NL,
       "Too many requests. Please try again later." >>

\* C8: the bytes sent to the client when the quota is exhausted are the fixed
\* rejection payload, starting with the status line and with no other bytes
\* before or after (a final line feed is tolerated).
C8_RejectionPayloadVerbatim ==
    \A s \in Sessions : RejectedTurnOver(s) =>
        client_sent[s] \in {<<RejectionPayload>>, <<RejectionPayload \o <<NL>>>>}

\* No other session has been accepted.
Solo(s) == \A t \in Sessions \ {s} : pc[t] = "idle"

\* The admitted chunk went to every configured upstream, in order, and the
\* client got exactly one reply of each, in the same order.
Forwarded(s) ==
    /\ Len(upstream_sockets[s]) = Len(upstreams_config)
    /\ Len(client_sent[s]) = Len(upstreams_config)
    /\ \A j \in DOMAIN upstreams_config :
           /\ upstream_sockets[s][j].peer = upstreams_config[j]
           /\ upstream_sockets[s][j].sent = <<request_data[s]>>
           /\ client_sent[s][j] \in Replies(upstreams_config[j])

\* C9: with capacity k, no refill, no other session and upstreams that always
\* reply, exactly the first k messages of a session are forwarded and
\* answered with the upstream replies, every later one is answered with the
\* rejection payload only, and consume() is called once per non-empty chunk.
C9_FirstKForwardedRestRejected ==
    \A s \in Sessions :
        (bucketsize >= 0 /\ refills = 0 /\ Solo(s) /\ pc[s] # "crashed") =>
            /\ \A j \in DOMAIN turns[s] : turns[s][j] = (j <= bucketsize)
            /\ Len(turns[s]) =
                   received[s] - (IF pc[s] = "consume" \/ InConsume(s)
                                    THEN 1 ELSE 0)
            /\ (pc[s] = "recv" /\ turns[s] # <<>>) =>
                   IF LastTurn(s) THEN Forwarded(s)
                   ELSE client_sent[s] = <<Encode(HTTP_429)>>

\* C9 witness: capacity 1, a single session, no refill, one upstream or more:
\* the first message was forwarded, the second rejected.
C9_Witness ==
    \E s \in Sessions :
        /\ Solo(s)
        /\ bucketsize = 1
        /\ refills = 0
        /\ upstreams_config # <<>>
        /\ turns[s] = <<TRUE, FALSE>>
        /\ pc[s] = "recv"
        /\ client_sent[s] = <<Encode(HTTP_429)>>

\* C10: once a session's thread has terminated (client disconnect or an
\* upstream connect, send or receive raising), neither its client socket nor
\* any upstream socket it opened is still open.
C10_AllSocketsClosedAtExit ==
    \A s \in Sessions : pc[s] \in {"done", "crashed"} =>
        /\ client_conn[s] # "open"
        /\ \A sock \in UpstreamSocketsOf(s) : ~IsOpen(sock)

\* The last consume() of session s returned True and its iteration is over
\* (no upstream step raised: the session is back at the client read).
AdmittedTurnOver(s) == pc[s] = "recv" /\ turns[s] # <<>> /\ LastTurn(s)

\* C11: when no I/O step fails, an admitted message gets exactly one new
\* connection per configured upstream (the list the handler receives holds
\* one fresh, unused socket per upstream, in order), each of them is used for
\* one send and is closed before the handler waits for the next client
\* chunk, and the client connection stays open across the cycles.
C11_OneConnectionPerUpstreamPerMessage ==
    /\ [][\A s \in Sessions :
            (pc[s] = "establish" /\ pc'[s] \in {"send", "recv"}) =>
                /\ Len(upstream_sockets'[s]) = Len(upstreams_config)
                /\ \A j \in DOMAIN upstreams_config :
                       upstream_sockets'[s][j] = NewSocket(upstreams_config[j])
                /\ upstream_connections'[s] = <<>>]_vars
    /\ [](\A s \in Sessions : AdmittedTurnOver(s) =>
             /\ Len(upstream_sockets[s]) = Len(upstreams_config)
             /\ \A j \in DOMAIN upstream_sockets[s] :
                    /\ upstream_sockets[s][j].state = "closed"
                    /\ Len(upstream_sockets[s][j].sent) = 1
             /\ upstream_connections[s] = <<>>
             /\ upstream_socket[s] = NoSocket)
    /\ [](\A s \in Sessions :
             pc[s] \notin {"idle", "done", "crashed"} => client_conn[s] = "open")

\* C11 witness: a session has had two messages admitted and forwarded to two
\* upstreams, all sockets of the second cycle are closed, and it waits for
\* the next chunk on its open client connection.
C11_Witness ==
    \E s \in Sessions :
        /\ turns[s] = <<TRUE, TRUE>>
        /\ pc[s] = "recv"
        /\ Len(upstreams_config) = 2
        /\ \A j \in 1..2 : upstream_sockets[s][j].state = "closed"
        /\ client_conn[s] = "open"

\* consume() of session s has returned.
ConsumeReturned(s) == pc[s] \in {"reject", "establish"}

\* C12: a session that ends abruptly on an upstream connect, send or receive
\* failure does not hold the limiter lock and leaves tokensleft within
\* [0, bucketsize]; its failing step touches neither the bucket nor any other
\* session; afterwards a waiting consume() of another session still returns,
\* a refill that is due still happens, and a connection not yet accepted can
\* still be accepted.
C12_CrashLeavesLimiterUsable ==
    /\ [](\A s \in Sessions : pc[s] = "crashed" =>
             /\ lock # s
             /\ 0 <= tokensleft /\ tokensleft <= bucketsize)
    /\ [][\A s \in Sessions : (pc[s] # "crashed" /\ pc'[s] = "crashed") =>
             /\ UNCHANGED bucketVars
             /\ \A t \in Sessions \ {s} :
                    pc'[t] = pc[t] /\ client_conn'[t] = client_conn[t]]_vars
    /\ [](\A s \in Sessions : \A t \in Sessions \ {s} :
             (pc[s] = "crashed" /\ pc[t] = "idle") => ENABLED Accept(t))
    /\ \A s \in Sessions : \A t \in Sessions \ {s} :
           (pc[s] = "crashed" /\ pc[t] = "consume") ~> ConsumeReturned(t)
    /\ \A k \in 0..(MaxRefills - 1) :
           ((\E s \in Sessions : pc[s] = "crashed") /\ refills = k)
               ~> (refills = k + 1)

\* C12 witness: one session has ended on an upstream failure with its token
\* spent, and the other one is inside consume() holding the lock.
C12_Witness ==
    \E s \in Sessions : \E t \in Sessions \ {s} :
        /\ pc[s] = "crashed"
        /\ turns[s] = <<TRUE>>
        /\ pc[t] = "load"
        /\ lock = t

\* Positions at which a session waits on a socket: client recv or sendall,
\* upstream connect, sendall, recv or close.
AtSocketIO(s) ==
    pc[s] \in {"recv", "reject", "establish", "send", "await", "relay", "close"}

\* C13: the limiter lock is held only inside the `with` block of consume() or
\* of the refill, never at a point where a session waits on a socket; so with
\* no assumption that any socket operation of any session ever completes, a
\* consume() that is waiting for the lock still returns and a refill that is
\* due still takes the lock.
C13_LockNeverHeldAcrossIO ==
    /\ [](\A s \in Sessions : AtSocketIO(s) => lock # s)
    /\ [](\A s \in Sessions : lock = s <=> InConsume(s))
    /\ [](lock = RefillThread <=> refill_pc = "locked")
    /\ \A t \in Sessions : (pc[t] = "consume") ~> ConsumeReturned(t)
    /\ (refill_pc = "sleep" /\ refills < MaxRefills) ~> (refill_pc = "locked")

\* C13 witness: one session waits on an upstream reply while the other one
\* holds the lock inside consume().
C13_Witness ==
    \E s \in Sessions : \E t \in Sessions \ {s} :
        /\ pc[s] = "await"
        /\ pc[t] = "check"
        /\ lock = t

\* Everything session t owns.
SessionState(t) ==
    <<pc[t], client_conn[t], request_data[t], received[t], tokens_read[t],
      turns[t], upstream_connections[t], upstream_socket[t],
      upstream_sockets[t], idx[t], upstream_response[t], client_sent[t]>>

\* C14: when the client read returns zero bytes the loop of that session
\* ends: consume() is not called for it (bucket and lock untouched, no result
\* recorded), no upstream socket is made or written to, and nothing of any
\* other session changes; the session stays ended.
C14_ZeroByteReadEndsSessionOnly ==
    /\ [][\A s \in Sessions :
            (pc[s] = "recv" /\ pc'[s] # "recv" /\ request_data'[s] = <<>>) =>
                /\ pc'[s] = "done"
                /\ UNCHANGED bucketVars
                /\ turns'[s] = turns[s]
                /\ received'[s] = received[s]
                /\ upstream_connections'[s] = upstream_connections[s]
                /\ upstream_sockets'[s] = upstream_sockets[s]
                /\ upstream_socket'[s] = upstream_socket[s]
                /\ \A t \in Sessions \ {s} : SessionState(t)' = SessionState(t)]_vars
    /\ [][\A s \in Sessions : pc[s] = "done" =>
            SessionState(s)' = SessionState(s)]_vars
    /\ [](\A s \in Sessions : pc[s] = "done" =>
             /\ request_data[s] = <<>>
             /\ Len(turns[s]) = received[s]
             /\ \A sock \in UpstreamSocketsOf(s) : ~IsOpen(sock))

\* C14 witness: a session ended on a zero-byte read after one rejected
\* message, while the other session is in the middle of a forwarding cycle.
C14_Witness ==
    \E s \in Sessions : \E t \in Sessions \ {s} :
        /\ pc[s] = "done"
        /\ turns[s] = <<FALSE>>
        /\ pc[t] = "await"

\* C15: on an admitted turn each upstream gets exactly the chunk read from
\* the client, as one write, and the client gets, per upstream and in order,
\* exactly the chunk read from that upstream: nothing is changed, cut, merged
\* or framed.
C15_PayloadTransparent ==
    /\ [][\A s \in Sessions :
            /\ (pc[s] = "send" /\ pc'[s] = "await") =>
                   /\ upstream_sockets'[s][idx[s]].sent =
                          Append(upstream_sockets[s][idx[s]].sent, request_data[s])
                   /\ request_data'[s] = request_data[s]
            /\ (pc[s] = "relay" /\ pc'[s] = "close") =>
                   client_sent'[s] = Append(client_sent[s], upstream_response[s])]_vars
    /\ [](\A s \in Sessions :
             /\ pc[s] \in {"await", "relay", "close"} =>
                    upstream_sockets[s][idx[s]].sent = <<request_data[s]>>
             /\ pc[s] \in {"relay", "close"} =>
                    upstream_response[s] \in Replies(upstream_sockets[s][idx[s]].peer)
             /\ pc[s] = "close" =>
                    /\ Len(client_sent[s]) = idx[s]
                    /\ client_sent[s][idx[s]] = upstream_response[s]
             /\ AdmittedTurnOver(s) => Forwarded(s))

\* C15 witness: the chunk DATA went to two upstreams and the client got the
\* reply of the first followed by the reply of the second.
C15_Witness ==
    \E s \in Sessions :
        /\ AdmittedTurnOver(s)
        /\ request_data[s] = <<"DATA">>
        /\ Len(upstream_sockets[s]) = 2
        /\ \A j \in 1..2 : upstream_sockets[s][j].sent = << <<"DATA">> >>
        /\ client_sent[s] = << <<"PONG", "U1">>, <<"PONG", "U2">> >>

\* The session ended because connect() raised (the socket that failed is
\* kept in upstream_socket), as opposed to sendall or recv raising.
ConnectFailed(s) == pc[s] = "crashed" /\ upstream_socket[s] # NoSocket

\* Position, in configured order, of the upstream whose exchange failed.
FailedAt(s) ==
    IF ConnectFailed(s) THEN Len(upstream_connections[s]) + 1 ELSE idx[s]

\* The sockets made for the message during which the session failed.
SocketsOfFailedTurn(s) ==
    IF ConnectFailed(s) THEN upstream_connections[s] ELSE upstream_sockets[s]

C18_DisconnectClosesClientConn ==
    \A s \in Sessions : pc[s] = "done" => client_conn[s] = "closed"

\* C19: the handler never gives a token back: the step at which an upstream
\* connect, send or receive raises leaves tokensleft and the recorded True
\* result as they are, only the refill ever raises tokensleft, and as long as
\* no refill has happened the token of a failed message stays counted.
C19_TokenNotReturnedOnFailure ==
    /\ [][\A s \in Sessions : (pc[s] # "crashed" /\ pc'[s] = "crashed") =>
             /\ turns[s] # <<>> /\ LastTurn(s)
             /\ turns'[s] = turns[s]
             /\ tokensleft' = tokensleft]_vars
    /\ [][tokensleft' > tokensleft =>
             (refill_pc = "locked" /\ refill_pc' = "sleep")]_vars
    /\ []((refills = 0 /\ \E s \in Sessions : pc[s] = "crashed") =>
             (Granted >= 1 /\ tokensleft = bucketsize - Granted))

\* C19 witness: with capacity 2 and no refill one admitted message failed at
\* an upstream before anything was relayed, and one token is gone.
C19_Witness ==
    \E s \in Sessions :
        /\ pc[s] = "crashed"
        /\ client_sent[s] = <<>>
        /\ refills = 0
        /\ bucketsize = 2
        /\ tokensleft = 1

\* C20: with an empty upstream list an admitted message takes one token, no
\* socket is made, nothing is sent to the client for it and the handler goes
\* straight back to the client read; whatever the client is sent is the
\* rejection payload of a turn on which consume() returned False.
C20_EmptyUpstreamListAdmitsSilently ==
    /\ [](upstreams_config = <<>> => \A s \in Sessions :
             /\ pc[s] \notin {"send", "await", "relay", "close", "crashed"}
             /\ UpstreamSocketsOf(s) = {NoSocket}
             /\ AdmittedTurnOver(s) => client_sent[s] = <<>>
             /\ client_sent[s] # <<>> =>
                    /\ client_sent[s] = <<Encode(HTTP_429)>>
                    /\ turns[s] # <<>> /\ ~LastTurn(s))
    /\ [][upstreams_config = <<>> => \A s \in Sessions :
             /\ (pc[s] = "store" /\ pc'[s] # "store") =>
                    /\ tokensleft' = tokensleft - 1
                    /\ pc'[s] = "establish"
             /\ (pc[s] = "establish" /\ pc'[s] # "establish") =>
                    /\ pc'[s] = "recv"
                    /\ client_sent'[s] = <<>>
                    /\ UNCHANGED bucketVars]_vars

\* C20 witness: no upstream configured, capacity 1: the first message of a
\* session was admitted without any answer, the second got the rejection.
C20_Witness ==
    /\ upstreams_config = <<>>
    /\ bucketsize = 1
    /\ \E s \in Sessions :
           /\ turns[s] = <<TRUE, FALSE>>
           /\ pc[s] = "recv"
           /\ client_sent[s] = <<Encode(HTTP_429)>>

====
